---- MODULE Spec2Model ----
(***************************************************************************)
(* BatchIssuer of cert_issuer/batch_issuer.py: a batch of certificates is  *)
(* hashed into a Merkle tree, the cost of the anchoring transaction is     *)
(* computed, the transaction is assembled from the last spendable output   *)
(* of the issuing address, and after broadcast one receipt per certificate *)
(* is written.                                                             *)
(*                                                                         *)
(* MerkleTree / sha256 (package merkleproof), tx_utils, helpers and the    *)
(* Issuer base class are not part of batch_issuer.py; they are modelled    *)
(* from the design document (sections 4.2 - 4.5, 6).                       *)
(*                                                                         *)
(* sha256 is modelled as an ideal (collision-free) hash whose hex digest   *)
(* is the term it was computed from, written as a string of lower-case hex *)
(* digits in a prefix-free code: a document digest is <<0, d>>, the digest *)
(* of a concatenation s is <<1, 0>> \o s.  Hex digits are the numbers      *)
(* 0..15 (lower case) and 16..21 (the upper-case letters A..F).            *)
(***************************************************************************)
EXTENDS Integers, Sequences, FiniteSets, TLC

\* ------------------------------------------------------------------ bounds
\* largest batch (number of certificates in certificates_to_issue)
MaxCerts == 3
\* largest number of leaves ever added to the tree
MaxLeaves == 3
\* longest list the connector returns from get_unspent_outputs
MaxSpendables == 2

\* ------------------------------------------------------- hashing, hex, bytes
Last(s) == s[Len(s)]

\* sha256(normalized) of the normalized form of document d, as a hex digest
sha256_doc(d) == <<0, d>>

\* hash_f(l + r): sha256 of the concatenation of two hex digests
sha256_cat(l, r) == <<1, 0>> \o l \o r

\* value of one hex digit; binascii accepts both cases
HexVal(c) == IF c > 15 THEN c - 6 ELSE c

\* helpers.unhexlify: two hex digits per byte
unhexlify(h) == [k \in 1..(Len(h) \div 2) |-> 16 * HexVal(h[2 * k - 1]) + HexVal(h[2 * k])]

\* helpers.hexlify: two lower-case hex digits per byte
hexlify(b) == [k \in 1..(2 * Len(b)) |->
                 IF k % 2 = 1 THEN b[(k + 1) \div 2] \div 16 ELSE b[k \div 2] % 16]

\* ------------------------------------------------------------- Merkle tree
\* one level up: adjacent nodes are hashed pairwise, an odd last node is
\* carried forward unchanged
calculate_next_level(lv) ==
    [k \in 1..((Len(lv) + 1) \div 2) |->
        IF 2 * k <= Len(lv) THEN sha256_cat(lv[2 * k - 1], lv[2 * k]) ELSE lv[2 * k - 1]]

\* the levels of the tree over lv, from the leaves (first) to the root (last)
RECURSIVE build_levels(_)
build_levels(lv) ==
    IF Len(lv) <= 1 THEN <<lv>> ELSE <<lv>> \o build_levels(calculate_next_level(lv))

\* the tree object: leaves in the order they were added, the levels once built
EmptyTree == [leaves |-> <<>>, levels |-> <<>>, is_ready |-> FALSE]

\* get_merkle_root of a built tree
get_merkle_root(t) == Last(t.levels)[1]

\* the sibling path of the node at 0-based position p of level d, up to the root
RECURSIVE proof_from(_, _, _)
proof_from(levels, d, p) ==
    IF d >= Len(levels) THEN <<>>
    ELSE LET n == Len(levels[d]) IN
         IF p = n - 1 /\ n % 2 = 1
         THEN proof_from(levels, d + 1, p \div 2)
         ELSE LET sib == IF p % 2 = 1 THEN p - 1 ELSE p + 1 IN
              <<[side |-> IF p % 2 = 1 THEN "left" ELSE "right",
                 sibling_hash |-> levels[d][sib + 1]]>>
              \o proof_from(levels, d + 1, p \div 2)

\* makeProof(index), index 0-based
get_proof(t, index) == proof_from(t.levels, 1, index)

\* proof verification: combine with each sibling in the given order and side
RECURSIVE apply_proof(_, _)
apply_proof(h, proof) ==
    IF proof = <<>> THEN h
    ELSE apply_proof(IF proof[1].side = "left"
                     THEN sha256_cat(proof[1].sibling_hash, h)
                     ELSE sha256_cat(h, proof[1].sibling_hash),
                     Tail(proof))

validate_proof(proof, target_hash, merkle_root) == apply_proof(target_hash, proof) = merkle_root

\* make_receipt(index, tx_id) of a built tree, index 0-based and in range
make_receipt(t, index, tx_id) ==
    [index |-> index,
     target_hash |-> t.leaves[index + 1],
     proof |-> get_proof(t, index),
     merkle_root |-> get_merkle_root(t),
     tx_id |-> tx_id]

\* ------------------------------------------------- addresses, certificates
\* an address; the id tells the certificates' keys apart
Address(kind, id) == [kind |-> kind, id |-> id]

\* revocation_key of a certificate that has none (falsy in "if c.revocation_key")
NoneKey == Address("None", 0)

\* self.issuing_address
issuing_address == Address("issuing_address", 0)

\* the addresses create_transactions is called with (the batch-wide revocation address)
RevocationAddresses == {Address("revocation_address", 0)}

\* the script of the data-embedding output
OP_RETURN == Address("OP_RETURN", 0)

\* the i-th entry of certificates_to_issue: its document, the recipient's
\* address and, optionally, a revocation address of its own
CertificateMetadata(i, revocable) ==
    [uid |-> i, document |-> i,
     public_key |-> Address("public_key", i),
     revocation_key |-> IF revocable THEN Address("revocation_key", i) ELSE NoneKey]

\* the batches: certificates_to_issue is an ordered dictionary, here the
\* sequence of its values in iteration order
Batches ==
    UNION {{[i \in 1..n |-> CertificateMetadata(i, i \in R)] : R \in SUBSET (1..n)} : n \in 0..MaxCerts}

\* ------------------------------------------------------------------- costs
\* tx_cost_constants: the minimum output value and the fee policy
CostConstants ==
    {[min_output |-> 600, fee_fixed |-> 1000, fee_per_input |-> 0, fee_per_output |-> 0],
     [min_output |-> 1000, fee_fixed |-> 0, fee_per_input |-> 148, fee_per_output |-> 34]}

get_minimum_output_coin(c) == c.min_output

\* the fee policy: a fixed fee, or a fee per input and per output
calculate_tx_fee(c, num_inputs, num_outputs) ==
    c.fee_fixed + c.fee_per_input * num_inputs + c.fee_per_output * num_outputs

\* tx_utils.calculate_tx_total
calculate_tx_total(c, num_inputs, num_outputs) ==
    get_minimum_output_coin(c) * num_outputs + calculate_tx_fee(c, num_inputs, num_outputs)

\* values of the unspent outputs the connector may return
CoinValues == {5800, 1000000}

\* the lists get_unspent_outputs may return: each spendable has its outpoint
\* (here its place in the list) and its value
Spendables ==
    UNION {{[k \in 1..n |-> [outpoint |-> k, coin_value |-> v[k]]] : v \in [1..n -> CoinValues]}
           : n \in 0..MaxSpendables}

\* the transaction ids persist_tx may be called with
TxIds == {"None", "txid"}

\* tx_utils.create_transaction_output
create_transaction_output(address, value) == [address |-> address, value |-> value, payload |-> <<>>]

\* value carried by the data-embedding output
OpReturnCoin == 0

\* tx_utils.create_trx fails when the input cannot pay the total
create_trx_insufficient(total_cost, tx_input) == tx_input.coin_value < total_cost

\* tx_utils.create_trx: one input; the outputs handed in, then the
\* data-embedding output, then the change to the issuing address
create_trx(op_return_val, total_cost, address, tx_outs, tx_input) ==
    [tx_ins |-> <<tx_input>>,
     tx_outs |-> tx_outs
                 \o <<[address |-> OP_RETURN, value |-> OpReturnCoin, payload |-> op_return_val]>>
                 \o <<create_transaction_output(address, tx_input.coin_value - total_cost)>>]

\* ------------------------------------------------------------------- state
VARIABLES
    certificates_to_issue,   \* the batch, in iteration order
    tx_cost_constants,       \* the cost configuration
    tree,                    \* self.tree
    total,                   \* self.total, NoTotal until it is first assigned
    receipt_files,           \* per certificate: <<>> or <<the receipt written>>
    blockchain_cert_files,   \* per certificate: <<>> or <<the combined artifact written>>
    last_call,               \* the last method call: its name, inputs, error and return value
    tx_assembled,            \* history: create_transactions has returned a transaction
    cache,                   \* the module's cache: per url <<>> or <<the document cached>>
    loader_call              \* the last call of cached_document_loader

\* the attributes of the BatchIssuer, the files it writes and its last call
issuer_vars == <<certificates_to_issue, tx_cost_constants, tree, total, receipt_files,
                 blockchain_cert_files, last_call>>

\* the module-level cache of the document loader
cache_vars == <<cache, loader_call>>

vars == <<certificates_to_issue, tx_cost_constants, tree, total, receipt_files,
          blockchain_cert_files, last_call, tx_assembled, cache, loader_call>>

\* the urls of the JSON-LD contexts the normalization may ask for
Urls == {"https://w3id.org/blockcerts/v1", "https://w3id.org/openbadges/v1",
         "https://w3id.org/security/v1"}

\* how many versions of a document a url may serve over time
MaxVersions == 2

\* what jsonld_document_loader returns for a url: a non-empty (truthy) dictionary
RemoteDocument(url, version) == [contextUrl |-> "None", documentUrl |-> url, document |-> version]

\* what is recorded of a call of cached_document_loader: loaded tells whether
\* jsonld_document_loader was invoked, value holds the document returned
LoaderCall(url, override_cache, loaded, value) ==
    [url |-> url, override_cache |-> override_cache, loaded |-> loaded, value |-> value]

\* cache = SimpleCache(), with no call made yet
EmptyCache ==
    /\ cache = [u \in Urls |-> <<>>]
    /\ loader_call = LoaderCall("", FALSE, FALSE, <<>>)

\* self.total before calculate_cost_for_certificate_batch has assigned it
NoTotal == -1

\* what is recorded of a call: err is "" when it returned, value holds what it returned
Call(op, err, asked, spendables, value) ==
    [op |-> op, err |-> err, asked |-> asked, spendables |-> spendables, value |-> value]

\* the state after __init__ for a batch and a cost configuration
InitOf(batches, constants) ==
    /\ certificates_to_issue \in batches
    /\ tx_cost_constants \in constants
    /\ tree = EmptyTree
    /\ total = NoTotal
    /\ receipt_files = [i \in 1..Len(certificates_to_issue) |-> <<>>]
    /\ blockchain_cert_files = [i \in 1..Len(certificates_to_issue) |-> <<>>]
    /\ last_call = Call("__init__", "", FALSE, <<>>, <<>>)
    /\ tx_assembled = FALSE
    /\ EmptyCache

\* ------------------------------------------------------- CommitmentBuilder
\* add_leaf(hashed, False): appends a leaf, which gets the next index.  It may be
\* called only before the tree is finalized; what a later call does is not
\* specified, so it either is rejected (late = "rejected") or appends the leaf
\* to a tree that then is no longer built (late = "appended").
add_leaf_rejected(t, late) == t.is_ready /\ late = "rejected"

add_leaf(t, hashed, late) ==
    IF add_leaf_rejected(t, late) THEN t
    ELSE [leaves |-> Append(t.leaves, hashed), levels |-> <<>>, is_ready |-> FALSE]

\* make_tree(): fails on an empty tree; builds the levels; a built tree is kept
make_tree_fails(t) == t.leaves = <<>>

make_tree(t) ==
    IF t.is_ready THEN t
    ELSE [leaves |-> t.leaves, levels |-> build_levels(t.leaves), is_ready |-> TRUE]

\* ------------------------------------------------------------ do_hash_certificate
\* add_leaf comes before the document is normalized: a leaf is added even
\* when normalizing fails
do_hash_certificate_leaf_before_failure(i, ok, late) ==
    /\ i \in 1..Len(certificates_to_issue)
    /\ Len(tree.leaves) < MaxLeaves
    /\ ~tree.is_ready => late = "appended"
    /\ LET hashed == sha256_doc(certificates_to_issue[i].document) IN
       /\ tree' = add_leaf(tree, hashed, late)
       /\ last_call' = Call("do_hash_certificate",
                            IF ~ok THEN "CanonicalizationError"
                            ELSE IF add_leaf_rejected(tree, late) THEN "TreeFinalizedError"
                            ELSE "",
                            FALSE, <<>>,
                            IF ok /\ ~add_leaf_rejected(tree, late) THEN <<hashed>> ELSE <<>>)
    /\ UNCHANGED <<certificates_to_issue, tx_cost_constants, total, receipt_files,
                   blockchain_cert_files>>

\* the certificate at place i of the batch is normalized and hashed, and the
\* hash is added as a leaf; ok = FALSE: decoding, parsing or normalizing the
\* document fails, and the call ends before add_leaf
do_hash_certificate(i, ok, late) ==
    /\ i \in 1..Len(certificates_to_issue)
    /\ Len(tree.leaves) < MaxLeaves
    /\ ~tree.is_ready => late = "appended"
    /\ LET hashed == sha256_doc(certificates_to_issue[i].document) IN
       /\ tree' = IF ok THEN add_leaf(tree, hashed, late) ELSE tree
       /\ last_call' = Call("do_hash_certificate",
                            IF ~ok THEN "CanonicalizationError"
                            ELSE IF add_leaf_rejected(tree, late) THEN "TreeFinalizedError"
                            ELSE "",
                            FALSE, <<>>,
                            IF ok /\ ~add_leaf_rejected(tree, late) THEN <<hashed>> ELSE <<>>)
    /\ UNCHANGED <<certificates_to_issue, tx_cost_constants, total, receipt_files,
                   blockchain_cert_files>>

\* ------------------------------------------- calculate_cost_for_certificate_batch
has_revocation_key(c) == c.revocation_key # NoneKey

num_inputs == 1

\* only two of the three fixed outputs are counted
num_outputs_two_fixed(certs) ==
    Len(certs) + Cardinality({i \in 1..Len(certs) : has_revocation_key(certs[i])}) + 2

\* one output per recipient, plus the revocation outputs, plus global
\* revocation, change output and OP_RETURN
num_outputs(certs) ==
    Len(certs) + Cardinality({i \in 1..Len(certs) : has_revocation_key(certs[i])}) + 3

\* the certificates are counted by taking them out of the batch
calculate_cost_for_certificate_batch_consuming ==
    /\ total' = calculate_tx_total(tx_cost_constants, num_inputs, num_outputs(certificates_to_issue))
    /\ last_call' = Call("calculate_cost_for_certificate_batch", "", FALSE, <<>>, <<total'>>)
    /\ certificates_to_issue' = <<>>
    /\ UNCHANGED <<tx_cost_constants, tree, receipt_files, blockchain_cert_files>>

calculate_cost_for_certificate_batch ==
    /\ total' = calculate_tx_total(tx_cost_constants, num_inputs, num_outputs(certificates_to_issue))
    /\ last_call' = Call("calculate_cost_for_certificate_batch", "", FALSE, <<>>, <<total'>>)
    /\ UNCHANGED <<certificates_to_issue, tx_cost_constants, tree, receipt_files,
                   blockchain_cert_files>>

\* ---------------------------------------------------------- build_recipient_tx_outs
\* the revocation output is left out
recipient_outs_without_revocation(certificate, c) ==
    <<create_transaction_output(certificate.public_key, get_minimum_output_coin(c))>>

\* the revocation output comes before the recipient's
recipient_outs_revocation_first(certificate, c) ==
    (IF has_revocation_key(certificate)
     THEN <<create_transaction_output(certificate.revocation_key, get_minimum_output_coin(c))>>
     ELSE <<>>)
    \o <<create_transaction_output(certificate.public_key, get_minimum_output_coin(c))>>

\* the outputs of one certificate: to its public key and, if it has one, to
\* its revocation key
recipient_outs(certificate, c) ==
    <<create_transaction_output(certificate.public_key, get_minimum_output_coin(c))>>
    \o (IF has_revocation_key(certificate)
        THEN <<create_transaction_output(certificate.revocation_key, get_minimum_output_coin(c))>>
        ELSE <<>>)

\* tx_outs after the loop over the certificates in iteration order
RECURSIVE build_recipient_tx_outs(_, _)
build_recipient_tx_outs(certs, c) ==
    IF certs = <<>> THEN <<>>
    ELSE build_recipient_tx_outs(SubSeq(certs, 1, Len(certs) - 1), c)
         \o recipient_outs(Last(certs), c)

\* ------------------------------------------------------------ create_transactions
\* spendables[0] instead of spendables[-1]
select_first_input(spendables) == spendables[1]

\* the input that funds the transaction
select_input(spendables) == spendables[Len(spendables)]

\* the output to the batch-wide revocation address is not appended
assemble_tx_outs_without_global(certs, c, revocation_address) ==
    build_recipient_tx_outs(certs, c)

\* the outputs handed to create_trx: the recipients' outputs, then the output
\* to the batch-wide revocation address
assemble_tx_outs(certs, c, revocation_address) ==
    build_recipient_tx_outs(certs, c)
    \o <<create_transaction_output(revocation_address, get_minimum_output_coin(c))>>

\* the input recorded in the TransactionData is not the one that funds the transaction
transaction_data_first_input(t, spendables, revocation_address) ==
    LET last_input == select_input(spendables)
        op_return_value == unhexlify(get_merkle_root(t))
        tx_outs == assemble_tx_outs(certificates_to_issue, tx_cost_constants, revocation_address)
        transaction == create_trx(op_return_value, total, issuing_address, tx_outs, last_input)
    IN [uid |-> "batch_id",
        tx |-> transaction,
        tx_input |-> spendables[1],
        op_return_value |-> hexlify(op_return_value),
        batch_metadata |-> "batch_metadata"]

\* the root is embedded as its hex digits, not as the bytes they stand for
transaction_data_hex_payload(t, spendables, revocation_address) ==
    LET last_input == select_input(spendables)
        op_return_value == get_merkle_root(t)
        tx_outs == assemble_tx_outs(certificates_to_issue, tx_cost_constants, revocation_address)
        transaction == create_trx(op_return_value, total, issuing_address, tx_outs, last_input)
    IN [uid |-> "batch_id",
        tx |-> transaction,
        tx_input |-> last_input,
        op_return_value |-> hexlify(op_return_value),
        batch_metadata |-> "batch_metadata"]

\* the TransactionData returned for a built tree t and the spendables
transaction_data(t, spendables, revocation_address) ==
    LET last_input == select_input(spendables)
        op_return_value == unhexlify(get_merkle_root(t))
        tx_outs == assemble_tx_outs(certificates_to_issue, tx_cost_constants, revocation_address)
        transaction == create_trx(op_return_value, total, issuing_address, tx_outs, last_input)
    IN [uid |-> "batch_id",
        tx |-> transaction,
        tx_input |-> last_input,
        op_return_value |-> hexlify(op_return_value),
        batch_metadata |-> "batch_metadata"]

\* the check for an empty list of spendables is missing: spendables[-1] fails
create_transactions_error_unchecked(t, spendables) ==
    IF make_tree_fails(t) THEN "EmptyBatchError"
    ELSE IF spendables = <<>> THEN "IndexError"
    ELSE IF total = NoTotal THEN "AttributeError"
    ELSE IF create_trx_insufficient(total, spendables[Len(spendables)]) THEN "InsufficientFundsError"
    ELSE ""

\* self.total is read although it was never assigned, as if it had a default
create_transactions_error_total_defaulted(t, spendables) ==
    IF make_tree_fails(t) THEN "EmptyBatchError"
    ELSE IF spendables = <<>> THEN "InsufficientFundsError"
    ELSE IF create_trx_insufficient(total, select_input(spendables)) THEN "InsufficientFundsError"
    ELSE ""

\* make_tree is called after the spendable outputs are fetched and checked
create_transactions_error_funds_first(t, spendables) ==
    IF spendables = <<>> THEN "InsufficientFundsError"
    ELSE IF make_tree_fails(t) THEN "EmptyBatchError"
    ELSE IF total = NoTotal THEN "AttributeError"
    ELSE IF create_trx_insufficient(total, select_input(spendables)) THEN "InsufficientFundsError"
    ELSE ""

\* the error create_transactions ends with ("" when it returns), in the
\* order of its statements
create_transactions_error(t, spendables) ==
    IF make_tree_fails(t) THEN "EmptyBatchError"
    ELSE IF spendables = <<>> THEN "InsufficientFundsError"
    ELSE IF total = NoTotal THEN "AttributeError"
    ELSE IF create_trx_insufficient(total, select_input(spendables)) THEN "InsufficientFundsError"
    ELSE ""

\* every call builds the tree anew, over the leaves taken in reverse
create_transactions_rebuilds_reversed(spendables, revocation_address) ==
    LET err == create_transactions_error(tree, spendables)
        asked == ~make_tree_fails(tree)
        reversed == [k \in 1..Len(tree.leaves) |-> tree.leaves[Len(tree.leaves) + 1 - k]]
    IN /\ asked \/ spendables = <<>>
       /\ tree' = IF make_tree_fails(tree) THEN tree
                  ELSE [leaves |-> reversed, levels |-> build_levels(reversed), is_ready |-> TRUE]
       /\ last_call' = Call("create_transactions", err, asked, spendables,
                            IF err = "" THEN <<transaction_data(tree', spendables, revocation_address)>>
                            ELSE <<>>)
       /\ UNCHANGED <<certificates_to_issue, tx_cost_constants, total, receipt_files,
                      blockchain_cert_files>>

\* spendables is what connector.get_unspent_outputs returns when it is asked
create_transactions(spendables, revocation_address) ==
    LET err == create_transactions_error(tree, spendables)
        asked == ~make_tree_fails(tree)
    IN /\ asked \/ spendables = <<>>
       /\ tree' = IF make_tree_fails(tree) THEN tree ELSE make_tree(tree)
       /\ last_call' = Call("create_transactions", err, asked, spendables,
                            IF err = "" THEN <<transaction_data(tree', spendables, revocation_address)>>
                            ELSE <<>>)
       /\ UNCHANGED <<certificates_to_issue, tx_cost_constants, total, receipt_files,
                      blockchain_cert_files>>

\* --------------------------------------------------------------------- persist_tx
Min(a, b) == IF a < b THEN a ELSE b

\* index is never incremented
receipt_index_stuck(k) == 0

\* the value of index when the k-th certificate (k = 1, 2, ...) is reached:
\* it starts at 0 and is incremented once per certificate
receipt_index(k) == k - 1

\* how many certificates the loop handles before make_receipt fails: none
\* when the tree is not built, and no more than there are leaves
persisted_count(t, certs) == IF t.is_ready THEN Min(Len(certs), Len(t.leaves)) ELSE 0

persist_tx_error(t, certs) ==
    IF certs = <<>> THEN ""
    ELSE IF ~t.is_ready THEN "NotBuiltError"
    ELSE IF Len(certs) > Len(t.leaves) THEN "IndexOutOfRangeError"
    ELSE ""

blockchain_cert(metadata, receipt) ==
    [context |-> "https://w3id.org/blockcerts/v1",
     type |-> "BlockchainCertificate",
     document |-> metadata.document,
     receipt |-> receipt]

\* index is incremented before make_receipt instead of after it
persist_tx_early_increment(tx_id) ==
    LET done == IF tree.is_ready THEN Min(Len(certificates_to_issue), Len(tree.leaves) - 1) ELSE 0
        receipt(k) == make_receipt(tree, k, tx_id)
    IN /\ receipt_files' = [k \in 1..Len(certificates_to_issue) |->
                              IF k <= done THEN <<receipt(k)>> ELSE receipt_files[k]]
       /\ blockchain_cert_files' = [k \in 1..Len(certificates_to_issue) |->
                              IF k <= done
                              THEN <<blockchain_cert(certificates_to_issue[k], receipt(k))>>
                              ELSE blockchain_cert_files[k]]
       /\ last_call' = Call("persist_tx",
                            IF certificates_to_issue = <<>> THEN ""
                            ELSE IF ~tree.is_ready THEN "NotBuiltError"
                            ELSE IF Len(certificates_to_issue) >= Len(tree.leaves)
                                 THEN "IndexOutOfRangeError" ELSE "",
                            FALSE, <<>>, <<tx_id>>)
       /\ UNCHANGED <<certificates_to_issue, tx_cost_constants, tree, total>>

persist_tx(tx_id) ==
    LET done == persisted_count(tree, certificates_to_issue)
        receipt(k) == make_receipt(tree, receipt_index(k), tx_id)
    IN /\ receipt_files' = [k \in 1..Len(certificates_to_issue) |->
                              IF k <= done THEN <<receipt(k)>> ELSE receipt_files[k]]
       /\ blockchain_cert_files' = [k \in 1..Len(certificates_to_issue) |->
                              IF k <= done
                              THEN <<blockchain_cert(certificates_to_issue[k], receipt(k))>>
                              ELSE blockchain_cert_files[k]]
       /\ last_call' = Call("persist_tx", persist_tx_error(tree, certificates_to_issue),
                            FALSE, <<>>, <<tx_id>>)
       /\ UNCHANGED <<certificates_to_issue, tx_cost_constants, tree, total>>

\* ----------------------------------------------------------------- specifications
\* The pipeline: the methods are called in any order, certificates are hashed
\* in any order and any number of times; one cost configuration, batches
\* without revocation keys, and a connector that has nothing, too little or
\* enough to spend.
PlainBatches == {b \in Batches : \A i \in 1..Len(b) : ~has_revocation_key(b[i])}

PipelineConstants == {c \in CostConstants : c.fee_fixed = 1000}

PipelineSpendables == {sp \in Spendables : Len(sp) <= 1}

Init == InitOf(PlainBatches, PipelineConstants)

\* the history of a step of the issuer; the document cache is the subject
\* of SpecCache and is left alone here
issuer_step ==
    /\ tx_assembled' = (tx_assembled \/ (last_call'.op = "create_transactions" /\ last_call'.err = ""))
    /\ UNCHANGED cache_vars

Next ==
    \/ \E i \in 1..MaxCerts, ok \in BOOLEAN, late \in {"rejected", "appended"} :
          do_hash_certificate(i, ok, late) /\ issuer_step
    \/ calculate_cost_for_certificate_batch /\ issuer_step
    \/ \E spendables \in PipelineSpendables, revocation_address \in RevocationAddresses :
          create_transactions(spendables, revocation_address) /\ issuer_step
    \/ \E tx_id \in TxIds : persist_tx(tx_id) /\ issuer_step

Spec == Init /\ [][Next]_vars

\* The transaction assembly: every batch (any certificate with or without a
\* revocation key), every cost configuration and every list of spendables;
\* the certificates are hashed once each, in batch order.
InitTx == InitOf(Batches, CostConstants)

hash_next_certificate ==
    /\ ~tree.is_ready
    /\ do_hash_certificate(Len(tree.leaves) + 1, TRUE, "appended")

NextTx ==
    \/ hash_next_certificate /\ issuer_step
    \/ calculate_cost_for_certificate_batch /\ issuer_step
    \/ \E spendables \in Spendables, revocation_address \in RevocationAddresses :
          create_transactions(spendables, revocation_address) /\ issuer_step

SpecTx == InitTx /\ [][NextTx]_vars

\* ------------------------------------------------------------------------ claims
NumCerts == Len(certificates_to_issue)

\* every certificate was hashed once, in batch iteration order
HashedInBatchOrder ==
    tree.leaves = [i \in 1..NumCerts |-> sha256_doc(certificates_to_issue[i].document)]

PersistedBuiltTree == last_call.op = "persist_tx" /\ tree.is_ready

\* C1: receipt order matches leaf order.  When the certificates were hashed
\* once each in batch order and persist_tx has run on the built tree, the
\* certificate at place k (index k - 1) has the receipt of leaf index k - 1
\* with the transaction id handed in, that leaf is the hash of this very
\* certificate and of no other, and the combined artifact pairs the
\* certificate's document with that receipt.
C1_ReceiptOrderMatchesLeafOrder ==
    (PersistedBuiltTree /\ HashedInBatchOrder) =>
        \A k \in 1..NumCerts :
            /\ receipt_files[k] = <<make_receipt(tree, k - 1, last_call.value[1])>>
            /\ receipt_files[k][1].index = k - 1
            /\ receipt_files[k][1].target_hash = sha256_doc(certificates_to_issue[k].document)
            /\ tree.leaves[k] = sha256_doc(certificates_to_issue[k].document)
            /\ \A j \in 1..NumCerts :
                  j # k => receipt_files[k][1].target_hash # sha256_doc(certificates_to_issue[j].document)
            /\ blockchain_cert_files[k] =
                  <<blockchain_cert(certificates_to_issue[k], receipt_files[k][1])>>

C1_Witness ==
    /\ PersistedBuiltTree /\ HashedInBatchOrder
    /\ NumCerts = 3
    /\ last_call.err = ""
    /\ receipt_files[3] # <<>> /\ receipt_files[3][1].index = 2

\* the hashes at the nodes of a built tree
TreeNodes(t) == UNION {{t.levels[d][j] : j \in 1..Len(t.levels[d])} : d \in 1..Len(t.levels)}

\* hashes of documents that are in no batch
ForeignHashes == {sha256_doc(0), sha256_cat(sha256_doc(0), sha256_doc(0))}

WithSibling(proof, j, h) == [proof EXCEPT ![j].sibling_hash = h]

WithFlippedSide(proof, j) ==
    [proof EXCEPT ![j].side = IF @ = "left" THEN "right" ELSE "left"]

\* the proof of every leaf index reproduces the root, and does not with one
\* sibling hash replaced
ProofsVerify(t) ==
    \A i \in 0..(Len(t.leaves) - 1) :
        LET proof == get_proof(t, i) IN
        /\ validate_proof(proof, t.leaves[i + 1], get_merkle_root(t))
        /\ \A j \in 1..Len(proof) : \A h \in TreeNodes(t) \cup ForeignHashes :
              h # proof[j].sibling_hash =>
                  ~validate_proof(WithSibling(proof, j, h), t.leaves[i + 1], get_merkle_root(t))

\* the receipts persist_tx has just written verify against the leaves of
\* their certificates' places
WrittenReceiptsVerify ==
    PersistedBuiltTree =>
        \A k \in 1..persisted_count(tree, certificates_to_issue) :
            /\ receipt_files[k] # <<>>
            /\ receipt_files[k][1].merkle_root = get_merkle_root(tree)
            /\ validate_proof(receipt_files[k][1].proof, tree.leaves[k], get_merkle_root(tree))

\* C2 as stated: in a built tree every proof reproduces the stored root, and
\* changing any single sibling hash or any single side flag makes it differ.
C2_AnyCorruptionFails ==
    tree.is_ready =>
        /\ ProofsVerify(tree)
        /\ \A i \in 0..(Len(tree.leaves) - 1) :
              \A j \in 1..Len(get_proof(tree, i)) :
                  ~validate_proof(WithFlippedSide(get_proof(tree, i), j),
                                  tree.leaves[i + 1], get_merkle_root(tree))

\* C2 (amended): in a built tree of any leaf count >= 1 the proof of every
\* leaf index, applied to that leaf, reproduces the stored root, as do the
\* proofs in the receipts persist_tx writes; changing any single sibling hash
\* makes the result differ; changing a single side flag makes it differ
\* exactly when the sibling differs from the hash it is combined with (two
\* equal siblings, as after hashing one certificate twice, combine to the
\* same parent on either side).
C2_ProofsReproduceRoot ==
    /\ tree.is_ready =>
          /\ Len(tree.leaves) >= 1
          /\ ProofsVerify(tree)
          /\ \A i \in 0..(Len(tree.leaves) - 1) :
                LET proof == get_proof(tree, i) IN
                \A j \in 1..Len(proof) :
                    validate_proof(WithFlippedSide(proof, j), tree.leaves[i + 1], get_merkle_root(tree))
                    <=> proof[j].sibling_hash = apply_proof(tree.leaves[i + 1], SubSeq(proof, 1, j - 1))
    /\ WrittenReceiptsVerify

\* an odd leaf count: the last leaf is carried forward, its proof skips a level
C2_Witness ==
    /\ PersistedBuiltTree
    /\ Len(tree.leaves) = 3 /\ NumCerts = 3
    /\ Len(get_proof(tree, 2)) = 1 /\ Len(get_proof(tree, 0)) = 2
    /\ receipt_files[3] # <<>>
    /\ tree.leaves[1] # tree.leaves[2]

\* ------------------------------------------------- claims on the transaction
\* create_transactions has just returned a transaction
AssembledTx == last_call.op = "create_transactions" /\ last_call.err = ""

TxData == last_call.value[1]

TxOuts == TxData.tx.tx_outs

\* R recipients, V of them with a revocation address, minimum output value m
R == NumCerts

V == Cardinality({i \in 1..NumCerts : certificates_to_issue[i].revocation_key.kind = "revocation_key"})

m == tx_cost_constants.min_output

\* fee(1, R + V + 3) of the configured fee policy
Fee ==
    tx_cost_constants.fee_fixed + tx_cost_constants.fee_per_input
    + tx_cost_constants.fee_per_output * (R + V + 3)

OutsOfKind(kind) == {j \in 1..Len(TxOuts) : TxOuts[j].address.kind = kind}

RecipientPlace(i) ==
    i + Cardinality({j \in 1..(i - 1) : certificates_to_issue[j].revocation_key.kind = "revocation_key"})

PaymentTo(address) == [address |-> address, value |-> m, payload |-> <<>>]

OutputsInOrder ==
    AssembledTx =>
        /\ Len(TxOuts) = R + V + 3
        /\ \A i \in 1..R :
              /\ TxOuts[RecipientPlace(i)] = PaymentTo(certificates_to_issue[i].public_key)
              /\ certificates_to_issue[i].revocation_key.kind = "revocation_key" =>
                    TxOuts[RecipientPlace(i) + 1] = PaymentTo(certificates_to_issue[i].revocation_key)
        /\ TxOuts[R + V + 1].address \in RevocationAddresses
        /\ TxOuts[R + V + 1] = PaymentTo(TxOuts[R + V + 1].address)
        /\ TxOuts[R + V + 2].address = OP_RETURN
        /\ hexlify(TxOuts[R + V + 2].payload) = get_merkle_root(tree)
        /\ TxOuts[R + V + 3].address = issuing_address
        /\ TxOuts[R + V + 3].payload = <<>>

\* a second assembly right after a first, from the same tree and total and
\* with the same selected input, gives the same output list
SameOutputsAgain ==
    (/\ AssembledTx /\ AssembledTx'
     /\ tree' = tree /\ total' = total
     /\ Last(last_call'.spendables) = Last(last_call.spendables))
    => TxOuts' = TxOuts

FundingDecided ==
    /\ last_call.op = "create_transactions"
    /\ last_call.asked /\ last_call.spendables # <<>>
    /\ total # NoTotal

\* C6: the change is exactly the selected input's value less the batch total
\* and never negative; assembly fails with InsufficientFundsError, returning
\* no transaction, if and only if the selected (last) input's value is
\* strictly less than the total; it succeeds when they are equal.
C6_ChangeAndFunding ==
    FundingDecided =>
        LET selected == Last(last_call.spendables) IN
        /\ (last_call.err = "InsufficientFundsError") <=> (selected.coin_value < total)
        /\ last_call.err \in {"", "InsufficientFundsError"}
        /\ last_call.err # "" => last_call.value = <<>>
        /\ last_call.err = "" =>
              /\ Len(last_call.value) = 1
              /\ Last(TxOuts).address = issuing_address
              /\ Last(TxOuts).value = selected.coin_value - total
              /\ Last(TxOuts).value >= 0

\* the selected input pays the total exactly: the change is 0
C6_Witness ==
    /\ FundingDecided /\ last_call.err = ""
    /\ Len(last_call.spendables) = 2
    /\ last_call.spendables[1].coin_value > total
    /\ Last(last_call.spendables).coin_value = total
    /\ Last(TxOuts).value = 0

RECURSIVE SumOfValues(_)
SumOfValues(outs) == IF outs = <<>> THEN 0 ELSE outs[1].value + SumOfValues(Tail(outs))

\* C7 as stated: the values of the assembled outputs sum to the estimator's total.
C7_OutputSumIsTotal == AssembledTx => SumOfValues(TxOuts) = total

\* C7 (amended): the R + V + 1 payment outputs built by the output assembler
\* (recipient, revocation, batch-wide revocation) carry m each; their sum,
\* plus the m the estimator budgets for each of the two other outputs
\* (commitment, change), plus the fee, is exactly the estimator's total.
C7_PaymentSumPlusReserveIsTotal ==
    AssembledTx =>
        /\ SumOfValues(SubSeq(TxOuts, 1, Len(TxOuts) - 2)) = (R + V + 1) * m
        /\ SumOfValues(SubSeq(TxOuts, 1, Len(TxOuts) - 2)) + 2 * m + Fee = total
        /\ \A j \in 1..(Len(TxOuts) - 2) : TxOuts[j].value = m

C7_Witness == AssembledTx /\ R = 2 /\ V = 1 /\ SumOfValues(TxOuts) # total

\* C9: the transaction has exactly one input, the last element of the list
\* the connector returned, whatever its length and the other elements; the
\* tx_input of the returned TransactionData is that input.
C9_LastInputSelected ==
    AssembledTx =>
        /\ last_call.asked
        /\ Len(last_call.spendables) >= 1
        /\ TxData.tx.tx_ins = <<last_call.spendables[Len(last_call.spendables)]>>
        /\ TxData.tx_input = last_call.spendables[Len(last_call.spendables)]
        /\ Len(last_call.value) = 1

C9_Witness ==
    /\ AssembledTx
    /\ Len(last_call.spendables) = 2
    /\ last_call.spendables[1].coin_value # last_call.spendables[2].coin_value
    /\ TxData.tx_input.outpoint = 2

\* the root of the tree over the leaves, computed from the leaves alone
RECURSIVE RootOver(_)
RootOver(lv) == IF Len(lv) = 1 THEN lv[1] ELSE RootOver(calculate_next_level(lv))

CommitmentOut == TxOuts[Len(TxOuts) - 1]

\* C10: the payload of the data-carrying output is the Merkle root of the
\* tree over the batch's leaves (its bytes), the op_return_value of the
\* returned TransactionData is that root, and unhexlify then hexlify returns
\* the root unchanged.
C10_PayloadIsRoot ==
    AssembledTx =>
        /\ tree.is_ready
        /\ get_merkle_root(tree) = RootOver(tree.leaves)
        /\ CommitmentOut.address = OP_RETURN
        /\ CommitmentOut.payload = unhexlify(RootOver(tree.leaves))
        /\ Len(CommitmentOut.payload) * 2 = Len(RootOver(tree.leaves))
        /\ \A k \in 1..Len(CommitmentOut.payload) : CommitmentOut.payload[k] \in 0..255
        /\ hexlify(CommitmentOut.payload) = RootOver(tree.leaves)
        /\ TxData.op_return_value = RootOver(tree.leaves)
        /\ hexlify(unhexlify(get_merkle_root(tree))) = get_merkle_root(tree)

C10_Witness ==
    /\ AssembledTx /\ Len(tree.leaves) = 3
    /\ TxData.op_return_value = sha256_cat(sha256_cat(sha256_doc(1), sha256_doc(2)), sha256_doc(3))
    /\ CommitmentOut.payload # TxData.op_return_value

\* create_transactions asked the connector and got an empty list
NoSpendables ==
    /\ last_call.op = "create_transactions"
    /\ last_call.asked /\ last_call.spendables = <<>>

FailsAsInsufficientFunds ==
    NoSpendables => (last_call.err = "InsufficientFundsError" /\ last_call.value = <<>>)

\* the failed call writes no receipt and no combined artifact, and leaves
\* the batch and the total as they were
NothingIssuedOnFailure ==
    NoSpendables' =>
        /\ receipt_files' = receipt_files
        /\ blockchain_cert_files' = blockchain_cert_files
        /\ certificates_to_issue' = certificates_to_issue
        /\ total' = total

ReceiptsWritten == {k \in 1..NumCerts : receipt_files[k] # <<>>}

ArtifactsWritten == {k \in 1..NumCerts : blockchain_cert_files[k] # <<>>}

\* C11: no receipt and no combined artifact is written unless
\* create_transactions has returned a transaction before and the transaction
\* id handed to persist_tx is a real one; and all receipts written carry the
\* same Merkle root and the same transaction id.
C11_NoReceiptWithoutTransaction ==
    \A k \in ReceiptsWritten \cup ArtifactsWritten :
        /\ tx_assembled
        /\ receipt_files[k] # <<>>
        /\ receipt_files[k][1].tx_id # "None"
        /\ \A j \in ReceiptsWritten :
              /\ receipt_files[j][1].merkle_root = receipt_files[k][1].merkle_root
              /\ receipt_files[j][1].tx_id = receipt_files[k][1].tx_id

\* ------------------------------------------------- one run of the pipeline
\* One run as the orchestrator drives it: every certificate is hashed once,
\* in batch order; then the cost is computed, the transaction is assembled
\* (which builds the tree) and, with the id of the broadcast transaction, the
\* receipts are written.  The first error ends the run.
run_do_hash_certificate ==
    /\ last_call.op \in {"__init__", "do_hash_certificate"}
    /\ last_call.err = ""
    /\ Len(tree.leaves) < Len(certificates_to_issue)
    /\ \E ok \in BOOLEAN : do_hash_certificate(Len(tree.leaves) + 1, ok, "appended")

run_calculate_cost_for_certificate_batch ==
    /\ last_call.op \in {"__init__", "do_hash_certificate"}
    /\ last_call.err = ""
    /\ Len(tree.leaves) = Len(certificates_to_issue)
    /\ calculate_cost_for_certificate_batch

run_create_transactions ==
    /\ last_call.op = "calculate_cost_for_certificate_batch"
    /\ \E spendables \in Spendables, revocation_address \in RevocationAddresses :
          create_transactions(spendables, revocation_address)

run_persist_tx ==
    /\ last_call.op = "create_transactions"
    /\ last_call.err = ""
    /\ \E tx_id \in TxIds \ {"None"} : persist_tx(tx_id)

InitRun == InitOf(Batches, CostConstants)

NextRun ==
    \/ run_do_hash_certificate /\ issuer_step
    \/ run_calculate_cost_for_certificate_batch /\ issuer_step
    \/ run_create_transactions /\ issuer_step
    \/ run_persist_tx /\ issuer_step

SpecRun == InitRun /\ [][NextRun]_vars

\* ------------------------------------------------------------------- C12
\* every receipt and combined artifact written belongs to the one
\* transaction: it carries the id handed to persist_tx and the root that the
\* assembled transaction commits to
BoundToTheTransaction(k) ==
    /\ tx_assembled
    /\ receipt_files[k][1].tx_id = last_call.value[1]
    /\ receipt_files[k][1].merkle_root = get_merkle_root(tree)
    /\ blockchain_cert_files[k] = <<blockchain_cert(certificates_to_issue[k], receipt_files[k][1])>>

AllOrNothing ==
    \/ ReceiptsWritten = {} /\ ArtifactsWritten = {}
    \/ /\ ReceiptsWritten = 1..NumCerts /\ ArtifactsWritten = 1..NumCerts
       /\ \A k \in 1..NumCerts : BoundToTheTransaction(k)

ErrorBeforeBroadcast == last_call.err # "" /\ last_call.op # "persist_tx"

\* C12: no partial-batch issuance.  In every state of a run of the pipeline
\* either every certificate has its receipt and combined artifact, bound to
\* the one transaction, or none has; a run that reached persist_tx has
\* written all of them; and after an error in a stage before broadcast
\* nothing is written.
C12_NoPartialBatch ==
    /\ AllOrNothing
    /\ last_call.op = "persist_tx" => (last_call.err = "" /\ ReceiptsWritten = 1..NumCerts)
    /\ ErrorBeforeBroadcast => (ReceiptsWritten = {} /\ ArtifactsWritten = {})

C12_Witness ==
    /\ last_call.op = "persist_tx"
    /\ NumCerts = 3
    /\ ReceiptsWritten = {1, 2, 3}
    /\ receipt_files[3][1].tx_id = "txid"

\* ------------------------------------------------------------------- C13
\* the total of the batch the issuer holds
BatchTotal ==
    calculate_tx_total(tx_cost_constants, num_inputs, num_outputs(certificates_to_issue))

\* self.total is assigned by calculate_cost_for_certificate_batch only, and
\* then it is the total of the batch
TotalSetByCostOnly ==
    total' # total =>
        /\ last_call'.op = "calculate_cost_for_certificate_batch"
        /\ total' = BatchTotal'

\* without a total, a call that reached create_trx has failed
NoTransactionWithoutTotal ==
    (last_call.op = "create_transactions" /\ total = NoTotal) =>
        (last_call.err # "" /\ last_call.value = <<>> /\ ~tx_assembled)

\* the transaction returned spends the total of the very batch its outputs
\* are built from
TransactionSpendsBatchTotal ==
    AssembledTx =>
        /\ total # NoTotal /\ total = BatchTotal
        /\ Last(TxOuts).value = TxData.tx_input.coin_value - BatchTotal
        /\ Len(TxOuts) = num_outputs(certificates_to_issue)
        /\ SubSeq(TxOuts, 1, Len(TxOuts) - 3)
              = build_recipient_tx_outs(certificates_to_issue, tx_cost_constants)

\* C13: create_transactions returns a transaction only when
\* calculate_cost_for_certificate_batch has run before it, and the total it
\* passes to create_trx is the total of the credential set the outputs are
\* built from.
C13_CostBeforeTransaction ==
    /\ [](NoTransactionWithoutTotal /\ TransactionSpendsBatchTotal)
    /\ [][TotalSetByCostOnly]_vars

C13_Witness ==
    /\ AssembledTx
    /\ NumCerts = 2
    /\ total = BatchTotal
    /\ Last(TxOuts).value = TxData.tx_input.coin_value - total

\* ------------------------------------------------------------------- C14
\* C14: a leaf is appended only before the tree is finalized.  Once
\* create_transactions has built the tree, no later step (a later
\* do_hash_certificate in particular) adds a leaf: the built tree, its leaf
\* list and its root stay as they are.
C14_NoLeafAfterFinalized == [][tree.is_ready => tree' = tree]_vars

\* ------------------------------------------------------------------- C15
HashingFailed ==
    last_call.op = "do_hash_certificate" /\ last_call.err = "CanonicalizationError"

\* the failing call adds no leaf and returns no hash
FailedHashAddsNoLeaf == HashingFailed' => (tree' = tree /\ last_call'.value = <<>>)

\* nothing of a later stage has happened when the run has stopped at a
\* hashing failure
NothingDoneOnPartialBatch ==
    HashingFailed =>
        /\ ~tree.is_ready /\ tree.levels = <<>>
        /\ Len(tree.leaves) < NumCerts
        /\ total = NoTotal /\ ~tx_assembled
        /\ ReceiptsWritten = {} /\ ArtifactsWritten = {}

\* C15: when decoding, parsing, normalizing or hashing fails in
\* do_hash_certificate, no leaf is added for that certificate, and the batch
\* is aborted: the run takes no further step, so no later stage works on the
\* partially hashed batch.
C15_HashFailureAbortsBatch ==
    /\ []NothingDoneOnPartialBatch
    /\ [][FailedHashAddsNoLeaf /\ ~HashingFailed]_vars

\* the second certificate of three fails: one leaf, a partially hashed batch
C15_Witness ==
    /\ HashingFailed
    /\ NumCerts = 3
    /\ Len(tree.leaves) = 1

\* ------------------------------------------------------------------- C16
\* a built tree is the tree over its leaves: its levels and its root are
\* determined by the leaf hashes and their order, and by nothing else
RootIsFunctionOfLeaves ==
    tree.is_ready =>
        /\ tree.levels = build_levels(tree.leaves)
        /\ get_merkle_root(tree) = RootOver(tree.leaves)

\* create_transactions on a tree that is already built (no leaf was added
\* since) leaves the tree as it is and embeds the same root
RebuildKeepsTree ==
    (tree.is_ready /\ last_call'.op = "create_transactions") =>
        /\ tree' = tree
        /\ last_call'.err = "" =>
              LET outs == last_call'.value[1].tx.tx_outs IN
              /\ outs[Len(outs) - 1].payload = unhexlify(get_merkle_root(tree))
              /\ last_call'.value[1].op_return_value = get_merkle_root(tree)

\* two calls in a row that both return a transaction return the same payload
SamePayloadAgain ==
    (AssembledTx /\ AssembledTx') =>
        /\ CommitmentOut'.payload = CommitmentOut.payload
        /\ TxData'.op_return_value = TxData.op_return_value

CreateOnEmptyTree == last_call.op = "create_transactions" /\ tree.leaves = <<>>

\* C17: with no leaf added, finalizing the tree fails with EmptyBatchError:
\* create_transactions returns no transaction and no commitment payload, the
\* input source is not asked, the tree is not built, and no transaction was
\* ever returned.
C17_EmptyBatchFails ==
    CreateOnEmptyTree =>
        /\ last_call.err = "EmptyBatchError"
        /\ last_call.value = <<>>
        /\ ~last_call.asked
        /\ ~tree.is_ready /\ tree.levels = <<>>
        /\ ~tx_assembled

\* no certificate of a batch of two was hashed; the cost was computed
C17_Witness ==
    /\ CreateOnEmptyTree
    /\ NumCerts = 2
    /\ total # NoTotal
    /\ last_call.err = "EmptyBatchError"

\* ------------------------------------------------------ cached_document_loader
\* override_cache is not looked at: the cache is always asked first
cache_hit_ignoring_override(url, override_cache) == cache[url] # <<>>

\* cache.get(url) gave a document and it is used: override_cache is off and
\* the url has an entry (a document is a non-empty dictionary, so "if result"
\* holds whenever there is an entry)
cache_hit(url, override_cache) == ~override_cache /\ cache[url] # <<>>

\* version: which document jsonld_document_loader returns when it is invoked
cached_document_loader(url, override_cache, version) ==
    IF cache_hit(url, override_cache)
    THEN /\ loader_call' = LoaderCall(url, override_cache, FALSE, cache[url])
         /\ UNCHANGED cache
    ELSE LET doc == RemoteDocument(url, version) IN
         /\ cache' = [cache EXCEPT ![url] = <<doc>>]
         /\ loader_call' = LoaderCall(url, override_cache, TRUE, <<doc>>)

\* SimpleCache() keeps an entry for its default timeout (300 seconds): once
\* that time has passed, cache.get(url) returns None as if the url had never
\* been set
cache_timeout(url) ==
    /\ cache[url] # <<>>
    /\ cache' = [cache EXCEPT ![url] = <<>>]
    /\ UNCHANGED loader_call

\* the document loader alone: calls in any order, time passing in between
InitCache == InitOf({<<>>}, PipelineConstants)

NextCache ==
    \/ \E url \in Urls, override_cache \in BOOLEAN, version \in 1..MaxVersions :
          cached_document_loader(url, override_cache, version)
          /\ UNCHANGED issuer_vars /\ UNCHANGED tx_assembled
    \/ \E url \in Urls : cache_timeout(url) /\ UNCHANGED issuer_vars /\ UNCHANGED tx_assembled

SpecCache == InitCache /\ [][NextCache]_vars

\* ------------------------------------------------------------------- C18
\* an entry has timed out in this step
TimedOut == \E u \in Urls : cache[u] # <<>> /\ cache'[u] = <<>>

\* what a call of cached_document_loader does, seen from the step
ReadThrough ==
    ~TimedOut =>
        LET c == loader_call' IN
        /\ \A u \in Urls \ {c.url} : cache'[u] = cache[u]
        /\ (~c.override_cache /\ cache[c.url] # <<>>) =>
              (~c.loaded /\ c.value = cache[c.url] /\ cache' = cache)
        /\ (c.override_cache \/ cache[c.url] = <<>>) =>
              (c.loaded /\ cache'[c.url] = c.value /\ c.value # <<>>)

\* only the passing of time removes an entry, and it changes nothing else
OnlyTimeoutRemoves == TimedOut => loader_call' = loader_call

\* C18 as stated: the cache is read-through and has no invalidation.  Once a
\* url has been loaded its document stays cached for the life of the
\* process, so that every later call without override_cache is served from
\* the cache; a call with override_cache invokes the loader and replaces the
\* entry.
C18_NoInvalidation ==
    [][(\A u \in Urls : cache[u] # <<>> => cache'[u] # <<>>) /\ ReadThrough]_vars

\* C18 (amended): the cache is read-through, and an entry is dropped only by
\* SimpleCache's timeout.  While a url has an entry, every call without
\* override_cache returns the cached document without invoking the
\* underlying loader and leaves the cache as it is; a call for a url without
\* an entry (never loaded, or timed out) invokes the loader and caches its
\* document; a call with override_cache always invokes the loader and
\* replaces the entry.
C18_ReadThroughUntilTimeout == [][ReadThrough /\ OnlyTimeoutRemoves]_vars

\* a call without override_cache was served from the cache: the other url's
\* entry was replaced by an override call and is a later version
C18_Witness ==
    /\ ~loader_call.override_cache /\ ~loader_call.loaded
    /\ loader_call.value # <<>>
    /\ loader_call.value = cache[loader_call.url]
    /\ \E u \in Urls \ {loader_call.url} : cache[u] # <<>> /\ cache[u][1].document = 2

\* ------------------------------------------------------------------- C19
\* how many leaves are the hash of the certificate at place i
Occurrences(i) ==
    Cardinality({k \in 1..Len(tree.leaves) :
                    tree.leaves[k] = sha256_doc(certificates_to_issue[i].document)})

\* persist_tx has run after every certificate was hashed once, in order, and
\* a transaction was assembled
PersistedAfterPipeline == PersistedBuiltTree /\ HashedInBatchOrder /\ tx_assembled

\* one certificate was hashed twice, the others once
HashedTwice ==
    \E i \in 1..NumCerts :
        Occurrences(i) = 2 /\ \A j \in 1..NumCerts \ {i} : Occurrences(j) = 1

\* one certificate was not hashed, the others once
SkippedOne ==
    \E i \in 1..NumCerts :
        Occurrences(i) = 0 /\ \A j \in 1..NumCerts \ {i} : Occurrences(j) = 1

\* the leaf indexes that have a receipt
ReceiptIndexes == {receipt_files[k][1].index : k \in ReceiptsWritten}

\* C19: when persist_tx runs after a successful pipeline the number of
\* leaves equals the number of certificates: every index 0..n-1 handed to
\* make_receipt is in range, every certificate gets its receipt and no leaf
\* is left without one.  Hashing a certificate twice or skipping one breaks
\* the equality: a leaf is left without a receipt, or make_receipt runs out
\* of leaves and a certificate is left without a receipt.
C19_LeavesMatchCertificates ==
    /\ PersistedAfterPipeline =>
          /\ Len(tree.leaves) = NumCerts
          /\ last_call.err = ""
          /\ ReceiptsWritten = 1..NumCerts
          /\ \A k \in 1..NumCerts :
                /\ receipt_files[k][1].index = k - 1
                /\ receipt_files[k][1].index < Len(tree.leaves)
          /\ ReceiptIndexes = 0..(Len(tree.leaves) - 1)
    /\ HashedTwice =>
          /\ Len(tree.leaves) = NumCerts + 1
          /\ PersistedBuiltTree =>
                (last_call.err = "" /\ (Len(tree.leaves) - 1) \notin ReceiptIndexes)
    /\ SkippedOne =>
          /\ Len(tree.leaves) = NumCerts - 1
          /\ PersistedBuiltTree =>
                (last_call.err = "IndexOutOfRangeError" /\ NumCerts \notin ReceiptsWritten)

C19_Witness ==
    /\ PersistedAfterPipeline
    /\ NumCerts = 3
    /\ ReceiptIndexes = {0, 1, 2}
    /\ last_call.value = <<"txid">>

\* ------------------------------------------------------------------- C20
\* calculate_cost_for_certificate_batch assigns the total and nothing else
CostChangesTotalOnly ==
    last_call'.op = "calculate_cost_for_certificate_batch" =>
        /\ total' = BatchTotal
        /\ certificates_to_issue' = certificates_to_issue
        /\ tx_cost_constants' = tx_cost_constants
        /\ tree' = tree
        /\ receipt_files' = receipt_files
        /\ blockchain_cert_files' = blockchain_cert_files
        /\ cache' = cache

\* create_transactions, and build_recipient_tx_outs which it calls, leave
\* the batch, its order, the leaves and the total as they are; the outputs
\* built from the batch are the same before and after
CreateKeepsBatch ==
    last_call'.op = "create_transactions" =>
        /\ certificates_to_issue' = certificates_to_issue
        /\ tx_cost_constants' = tx_cost_constants
        /\ tree'.leaves = tree.leaves
        /\ total' = total
        /\ build_recipient_tx_outs(certificates_to_issue', tx_cost_constants')
              = build_recipient_tx_outs(certificates_to_issue, tx_cost_constants)
        /\ last_call'.err = "" =>
              SubSeq(last_call'.value[1].tx.tx_outs, 1, Len(last_call'.value[1].tx.tx_outs) - 3)
                 = build_recipient_tx_outs(certificates_to_issue, tx_cost_constants)

\* a create_transactions that finds no spendable output fails and leaves the
\* batch, the leaves and the total unchanged
FailedCreateKeepsState ==
    NoSpendables' =>
        /\ last_call'.err # "" /\ last_call'.value = <<>>
        /\ certificates_to_issue' = certificates_to_issue
        /\ tree'.leaves = tree.leaves
        /\ total' = total

\* C20: the cost computation changes only the stored total, output building
\* changes nothing: neither modifies the credential list, its order or the
\* tree's leaves; and a create_transactions that fails for want of a
\* spendable input leaves the credential list, the leaves and the stored
\* total unchanged.
C20_FrameEffects == [][CostChangesTotalOnly /\ CreateKeepsBatch /\ FailedCreateKeepsState]_vars

\* the cost is computed again on a batch that was already issued: the tree,
\* its leaves and the receipts are still there
C20_Witness ==
    /\ last_call.op = "calculate_cost_for_certificate_batch"
    /\ total = BatchTotal
    /\ NumCerts = 2 /\ HashedInBatchOrder /\ tree.is_ready
    /\ ReceiptsWritten = {1, 2}

====
